---- MODULE Spec2Model ----
(***************************************************************************)
(* Model of the leetcode-compensation pipeline: the sync driver            *)
(* (refresh.py), the extraction driver (parse.py, main.py) and the record  *)
(* store helpers (utils.py, utils/helpers.py).                             *)
(*                                                                         *)
(* Time is counted in whole ticks of the configured date format; the       *)
(* remote createdAt timestamp is finer (date_fmt sub-units per tick) and   *)
(* strftime floors it.                                                     *)
(***************************************************************************)
EXTENDS Integers, Sequences, FiniteSets, TLC

\* ------------------------------------------------------------------ bounds
\* Page size of the list query (refresh.py:107 sets 50; scaled down).
first == 2
\* max_posts argument of refresh_posts (refresh.py:101 default 100; scaled).
max_posts == 2
\* config["app"]["max_recs"] (helpers.py:83 default 1000; scaled).
max_recs == 3
\* Number of posts the remote forum ever publishes.
MaxPosts == 3
\* Last clock tick.
MaxNow == 4
\* Number of sync runs started.
MaxRuns == 2
\* Number of extraction runs started.
MaxParseRuns == 2
\* Longest offer list the extraction service answers with.
MaxOffers == 2
\* Most lines the store file holds in the file-level model.
MaxFile == 4
\* Largest budget a retry wrapper is built with (the fetchers use 3).
MaxRetries == 3
\* Records truncate_raw_posts keeps (main.py:23 passes 100; scaled down).
keep_count == 2

\* ------------------------------------------------------- program constants
LAG_DAYS == 3
\* Clock sub-units per tick of config["app"]["date_fmt"].
date_fmt == 2
\* latest_parsed_date's "no watermark" result.
None == -1
\* config["parsing"]: the admissible ranges of an offer.
min_base_offer == 1
max_base_offer == 200
min_total_offer == 1
max_total_offer == 200

VARIABLES
    remote,             \* the forum's posts, most recent first (detail payloads)
    now,                \* datetime.now(), in ticks
    raw,                \* lines of the raw store file
    pc,                 \* position of refresh_posts
    existing_ids,       \* refresh_posts local
    till_date,          \* refresh_posts local
    skip,               \* refresh_posts local
    new_posts_count,    \* refresh_posts local
    skipped_due_to_lag, \* refresh_posts local
    posts_list,         \* refresh_posts local: topic ids of the current page
    idx,                \* position of the for loop in posts_list
    runs,               \* sync runs started so far
    ev,                 \* history: what the last step did
    stopped,            \* history: the watermark was crossed in this run
    lagged,             \* history: ids skipped for the lag window so far
    seen,               \* history: ids returned by list pages in this run
    run_now,            \* history: the clock when this run started
    max_posts_run,      \* refresh_posts argument max_posts of this run
    detail_of,          \* history: topic id the last step fetched the detail of
    quiet,              \* history: since this run began the forum and the clock
                        \* stood still and no remote call failed
    quiet_prev          \* history: the same of the run before, and the gap
                        \* between the two, and both runs had the same max_posts

syncVars == <<remote, now, raw, pc, existing_ids, till_date, skip,
              new_posts_count, skipped_due_to_lag, posts_list, idx, runs,
              ev, stopped, lagged, seen, run_now, max_posts_run, detail_of,
              quiet, quiet_prev>>

VARIABLES
    parsed,             \* lines of the parsed store file
    entry,              \* which entry point runs the extraction: "main" or "script"
    ppc,                \* position of the extraction run
    parsed_ids,         \* parse_posts argument
    p_till_date,        \* parse_posts argument till_date
    pi,                 \* position of comps_posts_iter in the raw store
    n_parsed,           \* parse_posts local
    n_skips,            \* parse_posts local
    pruns,              \* extraction runs started so far
    pev,                \* history: what the last extraction step did
    resp,               \* history: the last answer of the extraction service
    start_ids,          \* history: ids in the parsed store when the run started
    failed_prev,        \* history: ids whose extraction failed in the previous run
    failed_cur,         \* history: ids whose extraction failed in this run
    submitted           \* history: ids submitted to the service in this run

parseVars == <<parsed, entry, ppc, parsed_ids, p_till_date, pi, n_parsed,
               n_skips, pruns, pev, resp, start_ids, failed_prev, failed_cur,
               submitted>>

\* The store file at the level of open, write, flush and close.
VARIABLES
    \* which store the file is: "raw" or "parsed"
    store,
    \* the lines the file holds on disk
    file,
    \* lines written to the open file object and not flushed yet
    fbuf,
    \* position of the process in the operation on the file
    iopc,
    \* the operation running or last run on the file
    op,
    \* records the operation still has to write
    todo,
    \* history: the file when the operation or the run began
    old,
    \* history: the complete content a rewrite is producing
    target,
    \* history: records of this run whose append has returned
    acked,
    \* history: the process was terminated inside the operation
    crashed

ioVars == <<store, file, fbuf, iopc, op, todo, old, target, acked, crashed>>

\* One call through the wrapper that retry_with_exp_backoff(retries) builds.
VARIABLES
    \* the budget the decorator was given
    retries,
    \* wrapper local i, the attempt counter
    r_i,
    \* position of the wrapper
    rpc,
    \* history: invocations of the wrapped function in this call
    calls,
    \* history: the sleeps of this call, in seconds
    sleeps,
    \* history: the exceptions the attempts of this call raised
    excs,
    \* what the wrapper returned (None when it fell off the loop)
    result,
    \* the exception the wrapper raised to its caller
    raised

retryVars == <<retries, r_i, rpc, calls, sleeps, excs, result, raised>>

\* One store file seen through the operations that read or rewrite it whole.
VARIABLES
    \* Path(file_path).exists()
    jsonl_exists,
    \* the lines of the file, in file order
    jsonl,
    \* history: the lines of the file when the last operation was called
    jsonl_before,
    \* history: the last operation called on the file
    call,
    \* history: the post_ids argument of the last remove_posts_from_jsonl
    post_ids,
    \* history: the set of ids the last operation returned
    returned_ids,
    \* history: the date the last operation returned, None for None
    returned_date,
    \* history: the count the last operation returned or yielded
    returned_count,
    \* history: the exception the last operation raised, "none" for none
    exc

storeVars == <<jsonl_exists, jsonl, jsonl_before, call, post_ids, returned_ids,
               returned_date, returned_count, exc>>

\* The pipeline of main.py: a sync run, then the cleanup of the raw store.
VARIABLES
    \* history: ids of the records truncate_raw_posts removed from the raw store
    truncated

mainVars == <<truncated>>

vars == <<syncVars, parseVars, ioVars, retryVars, storeVars, mainVars>>

\* ------------------------------------------------------------ remote data
Titles == [good |-> <<"a", "|", "b">>, nosep |-> <<"a", "b">>, down |-> <<"c", "|", "d">>]

ReactionLists ==
    [good |-> <<[reactionType |-> "UPVOTE", count |-> 2],
                [reactionType |-> "DOWNVOTE", count |-> 1]>>,
     nosep |-> <<>>,
     down |-> <<[reactionType |-> "DOWNVOTE", count |-> 1]>>]

Shapes == {"good", "nosep", "down"}

\* ------------------------------------------------------------ pure helpers
Min(a, b) == IF a < b THEN a ELSE b

Max(a, b) == IF a > b THEN a ELSE b

RECURSIVE SeqIds(_)
SeqIds(s) == IF s = <<>> THEN {} ELSE {Head(s).id} \cup SeqIds(Tail(s))

\* creation_date.strftime(date_fmt): keeps whole ticks only.
strftime(createdAt) == createdAt \div date_fmt

\* "|" in title
HasSep(title) == \E i \in DOMAIN title : title[i] = "|"

\* [r for r in reactions if r.reactionType == t][0].count if any else 0
ReactionCount(reactions, t) ==
    LET hits == SelectSeq(reactions, LAMBDA r : r.reactionType = t)
    IN  IF hits # <<>> THEN hits[1].count ELSE 0

parse_post_data(post_data) ==
    [id |-> post_data.id,
     title |-> post_data.title,
     vote_count |-> ReactionCount(post_data.reactions, "UPVOTE")
                    - ReactionCount(post_data.reactions, "DOWNVOTE"),
     creation_date |-> strftime(post_data.createdAt)]

\* An admissibility test that forgets the vote count.
should_parse_post_NoVotes(post) == HasSep(post.title)

should_parse_post(post) ==
    IF ~HasSep(post.title) THEN FALSE
    ELSE IF post.vote_count < 0 THEN FALSE
    ELSE TRUE

\* A watermark test with < in place of <=.
has_crossed_till_date_Strict(creation_date, till) ==
    IF till = None THEN FALSE ELSE creation_date < till

has_crossed_till_date(creation_date, till) ==
    IF till = None THEN FALSE ELSE creation_date <= till

\* A lag test that forgets the lag window: only dates in the future count.
is_within_lag_period_NoWindow(creation_date, clock) == creation_date > clock

is_within_lag_period(creation_date, clock) == creation_date > clock - LAG_DAYS

\* Lines a store file can hold besides the records the pipeline writes: a
\* JSON object without creation_date, a JSON object without id, a line that
\* is not JSON (a record cut short by a crash), and a blank line.
NoDate == [id |-> 4]

NoId == [creation_date |-> 2]

Junk == [junk |-> 1]

Blank == [blank |-> 1]

\* not line.strip()
IsBlank(line) == "blank" \in DOMAIN line

\* json.loads(line) returns: the line is neither blank nor cut short.
Parses(line) == ~IsBlank(line) /\ "junk" \notin DOMAIN line

\* json.loads(line) returns a record and "creation_date" in record
HasDate(line) == Parses(line) /\ "creation_date" \in DOMAIN line

\* json.loads(line) returns a record that has the key "id"
HasId(line) == Parses(line) /\ "id" \in DOMAIN line

\* The first of the positions at which a line makes the loop raise, 0 for
\* none.
FirstBad(bad) ==
    IF bad = {} THEN 0 ELSE CHOOSE k \in bad : \A j \in bad : k <= j

\* refresh.py get_existing_ids: the set it returns when no line raises.
get_existing_ids(lines) == SeqIds(SelectSeq(lines, HasId))

\* refresh.py get_existing_ids: json.loads(line) and data["id"] are not in a
\* try block; the first non-blank line that fails one of them raises.
get_existing_ids_exc(lines) ==
    LET k == FirstBad({j \in DOMAIN lines :
                          ~IsBlank(lines[j]) /\ ~HasId(lines[j])})
    IN  IF k = 0 THEN "none"
        ELSE IF Parses(lines[k]) THEN "KeyError" ELSE "JSONDecodeError"

\* utils/data_processing.py get_existing_ids: a line that is not JSON is
\* passed over; data["id"] on a record without id raises.
data_processing_get_existing_ids_exc(lines) ==
    LET k == FirstBad({j \in DOMAIN lines :
                          Parses(lines[j]) /\ ~HasId(lines[j])})
    IN  IF k = 0 THEN "none" ELSE "KeyError"

\* A watermark that is the newest date of the file, not the first one.
RECURSIVE latest_parsed_date_Newest(_)
latest_parsed_date_Newest(lines) ==
    IF lines = <<>> THEN None
    ELSE LET rest == latest_parsed_date_Newest(Tail(lines))
         IN  IF HasDate(Head(lines))
             THEN Max(Head(lines).creation_date, rest)
             ELSE rest

\* utils/helpers.py latest_parsed_date on an existing file: the date of the
\* first line that is a record with creation_date, None when there is none.
latest_parsed_date(lines) ==
    LET dated == SelectSeq(lines, HasDate)
    IN  IF dated = <<>> THEN None ELSE dated[1].creation_date

\* utils.py latest_parsed_date on an existing file: the same loop inside
\* try/except Exception.
utils_latest_parsed_date(lines) ==
    LET dated == SelectSeq(lines, HasDate)
    IN  IF dated = <<>> THEN None ELSE dated[1].creation_date

\* A sort that forgets reverse=True: stable, ascending.
RECURSIVE SortDesc_Ascending(_)
SortDesc_Ascending(s) ==
    IF s = <<>> THEN <<>>
    ELSE LET rest == SortDesc_Ascending(SubSeq(s, 1, Len(s) - 1))
             r == s[Len(s)]
         IN  SelectSeq(rest, LAMBDA x : x.creation_date <= r.creation_date)
             \o <<r>>
             \o SelectSeq(rest, LAMBDA x : x.creation_date > r.creation_date)

\* A descending sort that puts a record before the earlier records of the
\* same date, as sorting ascending and reversing the list does.
RECURSIVE SortDesc_Reversed(_)
SortDesc_Reversed(s) ==
    IF s = <<>> THEN <<>>
    ELSE LET rest == SortDesc_Reversed(SubSeq(s, 1, Len(s) - 1))
             r == s[Len(s)]
         IN  SelectSeq(rest, LAMBDA x : x.creation_date > r.creation_date)
             \o <<r>>
             \o SelectSeq(rest, LAMBDA x : x.creation_date <= r.creation_date)

\* list.sort(key=date, reverse=True): stable, descending.
RECURSIVE SortDesc(_)
SortDesc(s) ==
    IF s = <<>> THEN <<>>
    ELSE LET rest == SortDesc(SubSeq(s, 1, Len(s) - 1))
             r == s[Len(s)]
         IN  SelectSeq(rest, LAMBDA x : x.creation_date >= r.creation_date)
             \o <<r>>
             \o SelectSeq(rest, LAMBDA x : x.creation_date < r.creation_date)

\* A truncation that slices from the wrong end and keeps the oldest.
sort_and_truncate_KeepOldest(lines) ==
    LET records == SortDesc(lines)
    IN  IF records = <<>> THEN lines
        ELSE IF Len(records) > max_recs
             THEN SubSeq(records, Len(records) - max_recs + 1, Len(records))
        ELSE records

\* A rewrite that puts the lines it could not read after the sorted records.
sort_and_truncate_KeepsMalformed(lines) ==
    LET records == SortDesc(SelectSeq(lines, HasDate))
        others == SelectSeq(lines, LAMBDA l : ~HasDate(l))
    IN  IF records = <<>> THEN lines
        ELSE IF Len(records) > max_recs
             THEN SubSeq(records, 1, max_recs) \o others
        ELSE records \o others

\* utils/helpers.py sort_and_truncate: the content of the file afterwards.
sort_and_truncate(lines) ==
    LET records == SortDesc(SelectSeq(lines, HasDate))
    IN  IF records = <<>> THEN lines
        ELSE IF Len(records) > max_recs THEN SubSeq(records, 1, max_recs)
        ELSE records

\* fetch_posts_list(skip, first): one page of topic ids.
Page(list, sk, n) ==
    [i \in 1..(Min(Len(list), sk + n) - Min(Len(list), sk)) |-> list[sk + i].id]

Detail(topic_id) ==
    LET i == CHOOSE i \in DOMAIN remote : remote[i].id = topic_id
    IN  remote[i]

\* ------------------------------------------------------------ environment
Publish ==
    /\ pc \in {"idle", "while"}
    /\ Len(remote) < MaxPosts
    /\ \E shape \in Shapes :
         LET id == Len(remote) + 1
             post == [id |-> id, title |-> Titles[shape],
                      reactions |-> ReactionLists[shape],
                      createdAt |-> Max(now * date_fmt + (id % date_fmt),
                                        IF remote = <<>> THEN 0
                                        ELSE remote[1].createdAt)]
         IN  remote' = <<post>> \o remote
    /\ ev' = "publish"
    /\ UNCHANGED <<now, raw, pc, existing_ids, till_date, skip, new_posts_count,
                   skipped_due_to_lag, posts_list, idx, runs, stopped, lagged,
                   seen, run_now>>
    /\ detail_of' = None
    /\ quiet' = FALSE
    /\ UNCHANGED <<max_posts_run, quiet_prev>>
    /\ UNCHANGED <<parseVars, ioVars, retryVars, storeVars, mainVars>>

\* A run is short against one tick of the clock: the clock moves between runs.
Tick ==
    /\ pc = "idle"
    /\ now < MaxNow
    /\ now' = now + 1
    /\ ev' = "tick"
    /\ UNCHANGED <<remote, raw, pc, existing_ids, till_date, skip,
                   new_posts_count, skipped_due_to_lag, posts_list, idx, runs,
                   stopped, lagged, seen, run_now>>
    /\ detail_of' = None
    /\ quiet' = FALSE
    /\ UNCHANGED <<max_posts_run, quiet_prev>>
    /\ UNCHANGED <<parseVars, ioVars, retryVars, storeVars, mainVars>>

\* ------------------------------------------------------------ refresh_posts
StartSync ==
    /\ pc = "idle"
    /\ runs < MaxRuns
    /\ runs' = runs + 1
    /\ existing_ids' = get_existing_ids(raw)
    /\ till_date' = latest_parsed_date(raw)
    /\ skip' = 0
    /\ new_posts_count' = 0
    /\ skipped_due_to_lag' = 0
    /\ posts_list' = <<>>
    /\ idx' = 1
    /\ pc' = "while"
    /\ ev' = "start"
    /\ stopped' = FALSE
    /\ seen' = {}
    /\ run_now' = now
    /\ UNCHANGED <<remote, now, raw, lagged>>
    /\ detail_of' = None
    /\ \E m \in 0..max_posts :
         /\ max_posts_run' = m
         /\ quiet_prev' = (quiet /\ m = max_posts_run)
    /\ quiet' = TRUE
    /\ UNCHANGED <<parseVars, ioVars, retryVars, storeVars, mainVars>>

\* while new_posts_count < max_posts: (condition false)
WhileExit ==
    /\ pc = "while"
    /\ ~(new_posts_count < max_posts_run)
    /\ pc' = "sort"
    /\ ev' = "quota"
    /\ UNCHANGED <<remote, now, raw, existing_ids, till_date, skip,
                   new_posts_count, skipped_due_to_lag, posts_list, idx, runs,
                   stopped, lagged, seen, run_now>>
    /\ detail_of' = None
    /\ UNCHANGED <<max_posts_run, quiet, quiet_prev>>
    /\ UNCHANGED <<parseVars, ioVars, retryVars, storeVars, mainVars>>

\* posts_list = fetcher.fetch_posts_list(skip, first); if not posts_list: break
FetchList ==
    /\ pc = "while"
    /\ new_posts_count < max_posts_run
    /\ posts_list' = Page(remote, skip, first)
    /\ idx' = 1
    /\ seen' = seen \cup {posts_list'[i] : i \in DOMAIN posts_list'}
    /\ pc' = IF posts_list' = <<>> THEN "sort" ELSE "for"
    /\ ev' = "list"
    /\ UNCHANGED <<remote, now, raw, existing_ids, till_date, skip,
                   new_posts_count, skipped_due_to_lag, runs, stopped, lagged,
                   run_now>>
    /\ detail_of' = None
    /\ UNCHANGED <<max_posts_run, quiet, quiet_prev>>
    /\ UNCHANGED <<parseVars, ioVars, retryVars, storeVars, mainVars>>

\* fetch_posts_list raises after its retries: nothing in refresh_posts catches it.
FetchListError ==
    /\ pc = "while"
    /\ new_posts_count < max_posts_run
    /\ pc' = "idle"
    /\ ev' = "list_error"
    /\ existing_ids' = {}
    /\ till_date' = None
    /\ skip' = 0
    /\ posts_list' = <<>>
    /\ idx' = 1
    /\ UNCHANGED <<remote, now, raw, new_posts_count, skipped_due_to_lag, runs,
                   stopped, lagged, seen, run_now>>
    /\ detail_of' = None
    /\ quiet' = FALSE
    /\ UNCHANGED <<max_posts_run, quiet_prev>>
    /\ UNCHANGED <<parseVars, ioVars, retryVars, storeVars, mainVars>>

InFor == pc = "for" /\ idx <= Len(posts_list)

topic_id == posts_list[idx]

post == parse_post_data(Detail(topic_id))

\* The existing-id test placed after the detail fetch.
SkipExisting_AfterFetch ==
    /\ InFor
    /\ topic_id \in existing_ids
    /\ idx' = idx + 1
    /\ ev' = "existing"
    /\ detail_of' = topic_id
    /\ UNCHANGED <<remote, now, raw, pc, existing_ids, till_date, skip,
                   new_posts_count, skipped_due_to_lag, posts_list, runs,
                   stopped, lagged, seen, run_now, max_posts_run, quiet,
                   quiet_prev>>
    /\ UNCHANGED <<parseVars, ioVars, retryVars, storeVars, mainVars>>

\* if topic_id in existing_ids: continue
SkipExisting ==
    /\ InFor
    /\ topic_id \in existing_ids
    /\ idx' = idx + 1
    /\ ev' = "existing"
    /\ UNCHANGED <<remote, now, raw, pc, existing_ids, till_date, skip,
                   new_posts_count, skipped_due_to_lag, posts_list, runs,
                   stopped, lagged, seen, run_now>>
    /\ detail_of' = None
    /\ UNCHANGED <<max_posts_run, quiet, quiet_prev>>
    /\ UNCHANGED <<parseVars, ioVars, retryVars, storeVars, mainVars>>

\* A detail fetch whose exception is not caught: it leaves refresh_posts.
DetailError_Propagates ==
    /\ InFor
    /\ topic_id \notin existing_ids
    /\ pc' = "idle"
    /\ ev' = "detail_error"
    /\ UNCHANGED <<remote, now, raw, existing_ids, till_date, skip, idx,
                   new_posts_count, skipped_due_to_lag, posts_list, runs,
                   stopped, lagged, seen, run_now>>
    /\ detail_of' = topic_id
    /\ quiet' = FALSE
    /\ UNCHANGED <<max_posts_run, quiet_prev>>
    /\ UNCHANGED <<parseVars, ioVars, retryVars, storeVars, mainVars>>

\* except Exception: continue
DetailError ==
    /\ InFor
    /\ topic_id \notin existing_ids
    /\ idx' = idx + 1
    /\ ev' = "detail_error"
    /\ UNCHANGED <<remote, now, raw, pc, existing_ids, till_date, skip,
                   new_posts_count, skipped_due_to_lag, posts_list, runs,
                   stopped, lagged, seen, run_now>>
    /\ detail_of' = topic_id
    /\ quiet' = FALSE
    /\ UNCHANGED <<max_posts_run, quiet_prev>>
    /\ UNCHANGED <<parseVars, ioVars, retryVars, storeVars, mainVars>>

\* if has_crossed_till_date(post.creation_date, till_date): break
Crossed ==
    /\ InFor
    /\ topic_id \notin existing_ids
    /\ has_crossed_till_date(post.creation_date, till_date)
    /\ pc' = "after_for"
    /\ stopped' = TRUE
    /\ ev' = "crossed"
    /\ UNCHANGED <<remote, now, raw, existing_ids, till_date, skip,
                   new_posts_count, skipped_due_to_lag, posts_list, idx, runs,
                   lagged, seen, run_now>>
    /\ detail_of' = topic_id
    /\ UNCHANGED <<max_posts_run, quiet, quiet_prev>>
    /\ UNCHANGED <<parseVars, ioVars, retryVars, storeVars, mainVars>>

\* if is_within_lag_period(post.creation_date): skipped_due_to_lag += 1; continue
LagSkip ==
    /\ InFor
    /\ topic_id \notin existing_ids
    /\ ~has_crossed_till_date(post.creation_date, till_date)
    /\ is_within_lag_period(post.creation_date, now)
    /\ skipped_due_to_lag' = skipped_due_to_lag + 1
    /\ lagged' = lagged \cup {topic_id}
    /\ idx' = idx + 1
    /\ ev' = "lag"
    /\ UNCHANGED <<remote, now, raw, pc, existing_ids, till_date, skip,
                   new_posts_count, posts_list, runs, stopped, seen, run_now>>
    /\ detail_of' = topic_id
    /\ UNCHANGED <<max_posts_run, quiet, quiet_prev>>
    /\ UNCHANGED <<parseVars, ioVars, retryVars, storeVars, mainVars>>

\* An append that forgets the break at the quota and goes on with the page.
AppendPost_NoBreak ==
    /\ InFor
    /\ topic_id \notin existing_ids
    /\ ~has_crossed_till_date(post.creation_date, till_date)
    /\ ~is_within_lag_period(post.creation_date, now)
    /\ should_parse_post(post)
    /\ raw' = Append(raw, post)
    /\ new_posts_count' = new_posts_count + 1
    /\ idx' = idx + 1
    /\ ev' = "append"
    /\ detail_of' = topic_id
    /\ UNCHANGED <<remote, now, pc, existing_ids, till_date, skip,
                   skipped_due_to_lag, posts_list, runs, stopped, lagged, seen,
                   run_now, max_posts_run, quiet, quiet_prev>>
    /\ UNCHANGED <<parseVars, ioVars, retryVars, storeVars, mainVars>>

\* An append that does not test the post against the watermark.
AppendPost_NoWatermark ==
    /\ InFor
    /\ topic_id \notin existing_ids
    /\ ~is_within_lag_period(post.creation_date, now)
    /\ should_parse_post(post)
    /\ raw' = Append(raw, post)
    /\ new_posts_count' = new_posts_count + 1
    /\ IF new_posts_count' >= max_posts_run
         THEN pc' = "after_for" /\ idx' = idx
         ELSE pc' = pc /\ idx' = idx + 1
    /\ ev' = "append"
    /\ UNCHANGED <<remote, now, existing_ids, till_date, skip,
                   skipped_due_to_lag, posts_list, runs, stopped, lagged, seen,
                   run_now>>
    /\ detail_of' = topic_id
    /\ UNCHANGED <<max_posts_run, quiet, quiet_prev>>
    /\ UNCHANGED <<parseVars, ioVars, retryVars, storeVars, mainVars>>

\* if should_parse_post(post): write, flush, count; if count >= max_posts: break
AppendPost ==
    /\ InFor
    /\ topic_id \notin existing_ids
    /\ ~has_crossed_till_date(post.creation_date, till_date)
    /\ ~is_within_lag_period(post.creation_date, now)
    /\ should_parse_post(post)
    /\ raw' = Append(raw, post)
    /\ new_posts_count' = new_posts_count + 1
    /\ IF new_posts_count' >= max_posts_run
         THEN pc' = "after_for" /\ idx' = idx
         ELSE pc' = pc /\ idx' = idx + 1
    /\ ev' = "append"
    /\ UNCHANGED <<remote, now, existing_ids, till_date, skip,
                   skipped_due_to_lag, posts_list, runs, stopped, lagged, seen,
                   run_now>>
    /\ detail_of' = topic_id
    /\ UNCHANGED <<max_posts_run, quiet, quiet_prev>>
    /\ UNCHANGED <<parseVars, ioVars, retryVars, storeVars, mainVars>>

\* should_parse_post(post) is false: fall through to the next edge
Reject ==
    /\ InFor
    /\ topic_id \notin existing_ids
    /\ ~has_crossed_till_date(post.creation_date, till_date)
    /\ ~is_within_lag_period(post.creation_date, now)
    /\ ~should_parse_post(post)
    /\ idx' = idx + 1
    /\ ev' = "reject"
    /\ UNCHANGED <<remote, now, raw, pc, existing_ids, till_date, skip,
                   new_posts_count, skipped_due_to_lag, posts_list, runs,
                   stopped, lagged, seen, run_now>>
    /\ detail_of' = topic_id
    /\ UNCHANGED <<max_posts_run, quiet, quiet_prev>>
    /\ UNCHANGED <<parseVars, ioVars, retryVars, storeVars, mainVars>>

\* the for loop runs out of edges
ForEnd ==
    /\ pc = "for"
    /\ idx > Len(posts_list)
    /\ pc' = "after_for"
    /\ ev' = "for_end"
    /\ UNCHANGED <<remote, now, raw, existing_ids, till_date, skip,
                   new_posts_count, skipped_due_to_lag, posts_list, idx, runs,
                   stopped, lagged, seen, run_now>>
    /\ detail_of' = None
    /\ UNCHANGED <<max_posts_run, quiet, quiet_prev>>
    /\ UNCHANGED <<parseVars, ioVars, retryVars, storeVars, mainVars>>

\* skip += first; if len(posts_list) < first: break
AfterFor ==
    /\ pc = "after_for"
    /\ skip' = skip + first
    /\ pc' = IF Len(posts_list) < first THEN "sort" ELSE "while"
    /\ ev' = "page_end"
    /\ UNCHANGED <<remote, now, raw, existing_ids, till_date,
                   new_posts_count, skipped_due_to_lag, posts_list, idx, runs,
                   stopped, lagged, seen, run_now>>
    /\ detail_of' = None
    /\ UNCHANGED <<max_posts_run, quiet, quiet_prev>>
    /\ UNCHANGED <<parseVars, ioVars, retryVars, storeVars, mainVars>>

\* sort_and_truncate(output_file)
SortRaw ==
    /\ pc = "sort"
    /\ raw' = sort_and_truncate(raw)
    /\ pc' = "idle"
    /\ ev' = "sorted"
    /\ existing_ids' = {}
    /\ till_date' = None
    /\ skip' = 0
    /\ posts_list' = <<>>
    /\ idx' = 1
    /\ UNCHANGED <<remote, now, new_posts_count, skipped_due_to_lag, runs,
                   stopped, lagged, seen, run_now>>
    /\ detail_of' = None
    /\ UNCHANGED <<max_posts_run, quiet, quiet_prev>>
    /\ UNCHANGED <<parseVars, ioVars, retryVars, storeVars, mainVars>>


\* -------------------------------------------------------- extraction data
\* Raw posts an extraction run may find in the raw store.
RawA ==
    [id |-> 1, title |-> <<"a", "|", "b">>, vote_count |-> 1,
     comment_count |-> 2, view_count |-> 7, creation_date |-> 2]

RawB ==
    [id |-> 2, title |-> <<"a", "|", "b">>, vote_count |-> 0,
     comment_count |-> 0, view_count |-> 5, creation_date |-> 1]

RawC ==
    [id |-> 3, title |-> <<"c", "|", "d">>, vote_count |-> -1,
     comment_count |-> 1, view_count |-> 3, creation_date |-> 2]

RawD ==
    [id |-> 4, title |-> <<"e", "|", "f">>, vote_count |-> 3,
     comment_count |-> 4, view_count |-> 9, creation_date |-> 2]

IsSortedDesc(s) ==
    \A i \in 1..(Len(s) - 1) : s[i].creation_date >= s[i + 1].creation_date

\* Raw stores as a completed sync run leaves them: sorted, newest first.
RawStores ==
    {s \in UNION {[1..n -> {RawA, RawB, RawC, RawD}] : n \in 0..3} :
        /\ \A i, j \in DOMAIN s : i # j => s[i] # s[j]
        /\ IsSortedDesc(s)}

\* Offers the extraction service may extract from a post.
OfferOk1 ==
    [company |-> "acme", role |-> "sde", yoe |-> 2, base_offer |-> 45,
     total_offer |-> 50, non_indian |-> "no"]

OfferOk2 ==
    [company |-> "initech", role |-> "sde2", yoe |-> 5, base_offer |-> 80,
     total_offer |-> 90, non_indian |-> "no"]

OfferBad ==
    [company |-> "acme", role |-> "sde", yoe |-> 2, base_offer |-> 4500000,
     total_offer |-> 50, non_indian |-> "no"]

Candidates == {OfferOk1, OfferOk2, OfferBad}

\* Answers of client.chat.completions.parse before response_format is applied:
\* an exception, a message without parsed content, or a list of offers.
Responses ==
    {[kind |-> "error", offers |-> <<>>], [kind |-> "none", offers |-> <<>>]}
    \cup {[kind |-> "offers", offers |-> o] :
            o \in UNION {[1..n -> Candidates] : n \in 0..MaxOffers}}

\* "intern" in role.lower()
IsIntern(role) == role \in {"intern", "sde intern"}

\* CompensationOffer (parse.py): Field(ge=, le=) and the field validators.
OfferValid(o) ==
    /\ o.yoe >= 0 /\ o.yoe <= 50
    /\ o.base_offer >= min_base_offer /\ o.base_offer <= max_base_offer
    /\ o.total_offer >= min_total_offer /\ o.total_offer <= max_total_offer
    /\ o.non_indian # "yes"
    /\ ~IsIntern(o.role)

\* CompensationOffers: every offer validates and the list is not empty;
\* otherwise validation raises.
OffersValid(offers) ==
    /\ offers # <<>>
    /\ \A i \in DOMAIN offers : OfferValid(offers[i])

NValid(offers) == Cardinality({i \in DOMAIN offers : OfferValid(offers[i])})

\* parse_compensation_with_openai: the offers, or <<>> for None. Any
\* exception, a validation error of response_format included, gives None.
parse_compensation_with_openai(r) ==
    IF r.kind = "error" THEN <<>>
    ELSE IF r.kind = "none" THEN <<>>
    ELSE IF ~OffersValid(r.offers) THEN <<>>
    ELSE r.offers

post_should_be_parsed(p) ==
    IF ~HasSep(p.title) THEN FALSE
    ELSE IF p.vote_count < 0 THEN FALSE
    ELSE TRUE

\* fill_yoe that leaves every offer its own yoe.
fill_yoe_OwnYoe(parsed_posts) == parsed_posts

get_parsed_posts(raw_post, offers) ==
    [i \in DOMAIN offers |->
        [id |-> raw_post.id,
         vote_count |-> raw_post.vote_count,
         comment_count |-> raw_post.comment_count,
         view_count |-> raw_post.view_count,
         creation_date |-> raw_post.creation_date,
         company |-> offers[i].company,
         role |-> offers[i].role,
         yoe |-> offers[i].yoe,
         base_offer |-> offers[i].base_offer,
         total_offer |-> offers[i].total_offer]]

fill_yoe(parsed_posts) ==
    IF Len(parsed_posts) > 1
    THEN [i \in DOMAIN parsed_posts |->
            IF i = 1 THEN parsed_posts[i]
            ELSE [parsed_posts[i] EXCEPT !.yoe = parsed_posts[1].yoe]]
    ELSE parsed_posts

\* parse.py get_parsed_ids: the set it returns when no line raises.
get_parsed_ids(lines) == SeqIds(SelectSeq(lines, HasId))

\* parse.py get_parsed_ids: json.loads(line)["id"] for every line, blank
\* lines included, outside any try block.
get_parsed_ids_exc(lines) ==
    LET k == FirstBad({j \in DOMAIN lines : ~HasId(lines[j])})
    IN  IF k = 0 THEN "none"
        ELSE IF Parses(lines[k]) THEN "KeyError" ELSE "JSONDecodeError"

\* utils.py sort_and_truncate(comps_path, truncate): the content written back.
sort_and_truncate_flag(lines, truncate) ==
    LET valid_records == SortDesc(SelectSeq(lines, HasDate))
    IN  IF valid_records = <<>> THEN lines
        ELSE IF truncate
             THEN SubSeq(valid_records, 1, Min(Len(valid_records), max_recs))
             ELSE valid_records

\* ------------------------------------------------------------ parse_posts
StartParse(e) ==
    /\ ppc = "idle"
    /\ pruns < MaxParseRuns
    /\ pruns' = pruns + 1
    /\ entry' = e
    /\ parsed_ids' = IF e = "script" THEN get_parsed_ids(parsed) ELSE {}
    /\ p_till_date' = IF e = "script" THEN latest_parsed_date(parsed) ELSE None
    /\ pi' = 1
    /\ n_parsed' = 0
    /\ n_skips' = 0
    /\ ppc' = "iter"
    /\ pev' = "start"
    /\ resp' = [kind |-> "none", offers |-> <<>>]
    /\ start_ids' = SeqIds(parsed)
    /\ failed_prev' = failed_cur
    /\ failed_cur' = {}
    /\ submitted' = {}
    /\ UNCHANGED parsed
    /\ UNCHANGED <<syncVars, ioVars, retryVars, storeVars, mainVars>>

\* main.py: parse_posts(str(raw_file), str(parsed_file))
StartMain == StartParse("main")

\* parse.py __main__: parse_posts(in, out, get_parsed_ids(out), latest_parsed_date(out))
StartScript == StartParse("script")

InIter == ppc = "iter" /\ pi <= Len(raw)

raw_post == raw[pi]

ShouldSkip == raw_post.id \in parsed_ids \/ ~post_should_be_parsed(raw_post)

\* if post["id"] in parsed_ids or not post_should_be_parsed(post): continue
PSkip ==
    /\ InIter
    /\ ShouldSkip
    /\ n_skips' = n_skips + 1
    /\ pi' = pi + 1
    /\ pev' = "skip"
    /\ UNCHANGED <<parsed, entry, ppc, parsed_ids, p_till_date, n_parsed, pruns,
                   resp, start_ids, failed_prev, failed_cur, submitted>>
    /\ UNCHANGED <<syncVars, ioVars, retryVars, storeVars, mainVars>>

\* A watermark test that skips the post and goes on with the next one.
PCrossed_Continue ==
    /\ InIter
    /\ ~ShouldSkip
    /\ has_crossed_till_date(raw_post.creation_date, p_till_date)
    /\ pi' = pi + 1
    /\ pev' = "crossed"
    /\ UNCHANGED <<parsed, entry, ppc, parsed_ids, p_till_date, n_parsed,
                   n_skips, pruns, resp, start_ids, failed_prev, failed_cur,
                   submitted>>
    /\ UNCHANGED <<syncVars, ioVars, retryVars, storeVars, mainVars>>

\* if has_crossed_till_date(post["creation_date"], till_date): break
PCrossed ==
    /\ InIter
    /\ ~ShouldSkip
    /\ has_crossed_till_date(raw_post.creation_date, p_till_date)
    /\ ppc' = "after"
    /\ pev' = "crossed"
    /\ UNCHANGED <<parsed, entry, parsed_ids, p_till_date, pi, n_parsed,
                   n_skips, pruns, resp, start_ids, failed_prev, failed_cur,
                   submitted>>
    /\ UNCHANGED <<syncVars, ioVars, retryVars, storeVars, mainVars>>

Submittable ==
    /\ InIter
    /\ ~ShouldSkip
    /\ ~has_crossed_till_date(raw_post.creation_date, p_till_date)

\* compensation_offers is truthy: the offers are written to the parsed store
PWrite ==
    /\ Submittable
    /\ \E r \in Responses :
         /\ parse_compensation_with_openai(r) # <<>>
         /\ resp' = r
         /\ parsed' = parsed \o fill_yoe(get_parsed_posts(raw_post,
                                    parse_compensation_with_openai(r)))
    /\ n_parsed' = n_parsed + 1
    /\ submitted' = submitted \cup {raw_post.id}
    /\ pi' = pi + 1
    /\ pev' = "write"
    /\ UNCHANGED <<entry, ppc, parsed_ids, p_till_date, n_skips, pruns,
                   start_ids, failed_prev, failed_cur>>
    /\ UNCHANGED <<syncVars, ioVars, retryVars, storeVars, mainVars>>

\* A failed extraction that ends the loop instead of counting a skip.
PFail_Aborts ==
    /\ Submittable
    /\ \E r \in Responses :
         /\ parse_compensation_with_openai(r) = <<>>
         /\ resp' = r
    /\ n_skips' = n_skips + 1
    /\ failed_cur' = failed_cur \cup {raw_post.id}
    /\ submitted' = submitted \cup {raw_post.id}
    /\ ppc' = "after"
    /\ pev' = "fail"
    /\ UNCHANGED <<parsed, entry, pi, parsed_ids, p_till_date, n_parsed, pruns,
                   start_ids, failed_prev>>
    /\ UNCHANGED <<syncVars, ioVars, retryVars, storeVars, mainVars>>

\* compensation_offers is None: the post counts as a skip
PFail ==
    /\ Submittable
    /\ \E r \in Responses :
         /\ parse_compensation_with_openai(r) = <<>>
         /\ resp' = r
    /\ n_skips' = n_skips + 1
    /\ failed_cur' = failed_cur \cup {raw_post.id}
    /\ submitted' = submitted \cup {raw_post.id}
    /\ pi' = pi + 1
    /\ pev' = "fail"
    /\ UNCHANGED <<parsed, entry, ppc, parsed_ids, p_till_date, n_parsed, pruns,
                   start_ids, failed_prev>>
    /\ UNCHANGED <<syncVars, ioVars, retryVars, storeVars, mainVars>>

\* comps_posts_iter is exhausted
PIterEnd ==
    /\ ppc = "iter"
    /\ pi > Len(raw)
    /\ ppc' = "after"
    /\ pev' = "iter_end"
    /\ UNCHANGED <<parsed, entry, parsed_ids, p_till_date, pi, n_parsed,
                   n_skips, pruns, resp, start_ids, failed_prev, failed_cur,
                   submitted>>
    /\ UNCHANGED <<syncVars, ioVars, retryVars, storeVars, mainVars>>

\* main.py: parse_posts returns; the parsed store is left as appended
FinishMain ==
    /\ ppc = "after"
    /\ entry = "main"
    /\ ppc' = "idle"
    /\ pev' = "end"
    /\ parsed_ids' = {}
    /\ p_till_date' = None
    /\ pi' = 1
    /\ UNCHANGED <<parsed, entry, n_parsed, n_skips, pruns, resp, start_ids,
                   failed_prev, failed_cur, submitted>>
    /\ UNCHANGED <<syncVars, ioVars, retryVars, storeVars, mainVars>>

\* parse.py __main__: sort_and_truncate(args.out_comps_path, truncate=True)
FinishScript ==
    /\ ppc = "after"
    /\ entry = "script"
    /\ parsed' = sort_and_truncate_flag(parsed, TRUE)
    /\ ppc' = "idle"
    /\ pev' = "end"
    /\ parsed_ids' = {}
    /\ p_till_date' = None
    /\ pi' = 1
    /\ UNCHANGED <<entry, n_parsed, n_skips, pruns, resp, start_ids,
                   failed_prev, failed_cur, submitted>>
    /\ UNCHANGED <<syncVars, ioVars, retryVars, storeVars, mainVars>>

\* ------------------------------------------------------- store file I/O
\* The store helpers and the two append loops at the level of the file
\* object: open(path, "w") empties the file when it opens it, write() puts a
\* line into the buffer of the file object, and the buffer reaches the file
\* on flush(), on close() or when it fills up.
IOOps ==
    {"sort_and_truncate", "truncate_raw_posts", "utils_sort_and_truncate",
     "utils_sort"}

IsPrefix(s, t) == Len(s) <= Len(t) /\ SubSeq(t, 1, Len(s)) = s

\* A truncation that sorts and rewrites the file whatever its size.
truncate_raw_posts_AlwaysRewrites(lines) ==
    LET records == SortDesc(SelectSeq(lines, HasDate))
    IN  IF records = <<>> THEN lines
        ELSE SubSeq(records, 1, Min(Len(records), keep_count))

\* utils/helpers.py truncate_raw_posts: the content of the file afterwards;
\* the file is rewritten only if len(records) > keep_count.
truncate_raw_posts(lines) ==
    LET records == SortDesc(SelectSeq(lines, HasDate))
    IN  IF Len(records) > keep_count THEN SubSeq(records, 1, keep_count)
        ELSE lines

\* Begin a rewrite: the records were read and transformed, and
\* open(file_path, "w") has emptied the file.
OpenW(name, records) ==
    /\ iopc = "idle"
    /\ ~crashed
    /\ op' = name
    /\ old' = file
    /\ target' = records
    /\ todo' = records
    /\ file' = <<>>
    /\ iopc' = "rewrite"
    /\ acked' = <<>>
    /\ UNCHANGED <<store, fbuf, crashed>>
    /\ UNCHANGED <<syncVars, parseVars, retryVars, storeVars, mainVars>>

\* utils/helpers.py sort_and_truncate up to open(file_path, "w")
SortAndTruncateOpen ==
    /\ store = "raw"
    /\ file # <<>>
    /\ OpenW("sort_and_truncate", sort_and_truncate(file))

\* utils/helpers.py truncate_raw_posts, len(records) > keep_count
TruncateRawPostsOpen ==
    /\ store = "raw"
    /\ Len(file) > keep_count
    /\ OpenW("truncate_raw_posts", truncate_raw_posts(file))

\* utils/helpers.py truncate_raw_posts, nothing to remove: no write
TruncateRawPostsKeep ==
    /\ iopc = "idle"
    /\ ~crashed
    /\ store = "raw"
    /\ Len(file) <= keep_count
    /\ op' = "truncate_raw_posts"
    /\ old' = file
    /\ target' = file
    /\ acked' = <<>>
    /\ UNCHANGED <<store, file, fbuf, iopc, todo, crashed>>
    /\ UNCHANGED <<syncVars, parseVars, retryVars, storeVars, mainVars>>

\* utils.py sort_and_truncate(comps_path, truncate) up to open(comps_path, "w")
UtilsSortAndTruncateOpen ==
    /\ store = "parsed"
    /\ file # <<>>
    /\ \E truncate \in BOOLEAN :
         OpenW(IF truncate THEN "utils_sort_and_truncate" ELSE "utils_sort",
               sort_and_truncate_flag(file, truncate))

\* f.write(json.dumps(record) + "\n") in the rewrite loop
WriteRecord ==
    /\ iopc = "rewrite"
    /\ ~crashed
    /\ todo # <<>>
    /\ fbuf' = Append(fbuf, Head(todo))
    /\ todo' = Tail(todo)
    /\ UNCHANGED <<store, file, iopc, op, old, target, acked, crashed>>
    /\ UNCHANGED <<syncVars, parseVars, retryVars, storeVars, mainVars>>

\* The buffer of the file object fills up and is written out.
AutoFlush ==
    /\ iopc \in {"rewrite", "parse"}
    /\ ~crashed
    /\ fbuf # <<>>
    /\ file' = file \o fbuf
    /\ fbuf' = <<>>
    /\ UNCHANGED <<store, iopc, op, todo, old, target, acked, crashed>>
    /\ UNCHANGED <<syncVars, parseVars, retryVars, storeVars, mainVars>>

\* The with block of the rewrite ends: close() flushes.
CloseRewrite ==
    /\ iopc = "rewrite"
    /\ ~crashed
    /\ todo = <<>>
    /\ file' = file \o fbuf
    /\ fbuf' = <<>>
    /\ iopc' = "idle"
    /\ UNCHANGED <<store, op, todo, old, target, acked, crashed>>
    /\ UNCHANGED <<syncVars, parseVars, retryVars, storeVars, mainVars>>

\* refresh.py:111 with open(output_file, "a") as f
OpenAppendSync ==
    /\ iopc = "idle"
    /\ ~crashed
    /\ store = "raw"
    /\ iopc' = "sync"
    /\ op' = "refresh_posts"
    /\ old' = file
    /\ target' = <<>>
    /\ acked' = <<>>
    /\ UNCHANGED <<store, file, fbuf, todo, crashed>>
    /\ UNCHANGED <<syncVars, parseVars, retryVars, storeVars, mainVars>>

\* refresh.py:137 f.write(json.dumps(asdict(post)) + "\n")
SyncWrite ==
    /\ iopc = "sync"
    /\ ~crashed
    /\ Len(file) < MaxFile
    /\ \E r \in {RawA, RawB, RawC} : fbuf' = Append(fbuf, r)
    /\ iopc' = "sync_flush"
    /\ UNCHANGED <<store, file, op, todo, old, target, acked, crashed>>
    /\ UNCHANGED <<syncVars, parseVars, retryVars, storeVars, mainVars>>

\* refresh.py:138 f.flush(): the append of the record is complete
SyncFlush ==
    /\ iopc = "sync_flush"
    /\ ~crashed
    /\ file' = file \o fbuf
    /\ acked' = acked \o fbuf
    /\ fbuf' = <<>>
    /\ iopc' = "sync"
    /\ UNCHANGED <<store, op, todo, old, target, crashed>>
    /\ UNCHANGED <<syncVars, parseVars, retryVars, storeVars, mainVars>>

\* The with block of refresh_posts ends.
CloseSync ==
    /\ iopc = "sync"
    /\ ~crashed
    /\ iopc' = "idle"
    /\ UNCHANGED <<store, file, fbuf, op, todo, old, target, acked, crashed>>
    /\ UNCHANGED <<syncVars, parseVars, retryVars, storeVars, mainVars>>

\* parse_posts begins: nothing is open between two posts.
ParseRunStart ==
    /\ iopc = "idle"
    /\ ~crashed
    /\ store = "parsed"
    /\ iopc' = "parse_run"
    /\ op' = "parse_posts"
    /\ old' = file
    /\ target' = <<>>
    /\ acked' = <<>>
    /\ UNCHANGED <<store, file, fbuf, todo, crashed>>
    /\ UNCHANGED <<syncVars, parseVars, retryVars, storeVars, mainVars>>

\* parse.py:225 with open(out_comps_path, "a") as f, for one post's offers
OpenAppendParse ==
    /\ iopc = "parse_run"
    /\ ~crashed
    /\ Len(file) + MaxOffers <= MaxFile
    /\ \E p \in {RawA, RawB}, r \in Responses :
         /\ parse_compensation_with_openai(r) # <<>>
         /\ todo' = fill_yoe(get_parsed_posts(p, parse_compensation_with_openai(r)))
    /\ iopc' = "parse"
    /\ UNCHANGED <<store, file, fbuf, op, old, target, acked, crashed>>
    /\ UNCHANGED <<syncVars, parseVars, retryVars, storeVars, mainVars>>

\* parse.py:227 f.write(json.dumps(parsed_post) + "\n"): no flush follows
ParseWrite ==
    /\ iopc = "parse"
    /\ ~crashed
    /\ todo # <<>>
    /\ fbuf' = Append(fbuf, Head(todo))
    /\ acked' = Append(acked, Head(todo))
    /\ todo' = Tail(todo)
    /\ UNCHANGED <<store, file, iopc, op, old, target, crashed>>
    /\ UNCHANGED <<syncVars, parseVars, retryVars, storeVars, mainVars>>

\* The with block of one post ends: close() flushes.
ParseClose ==
    /\ iopc = "parse"
    /\ ~crashed
    /\ todo = <<>>
    /\ file' = file \o fbuf
    /\ fbuf' = <<>>
    /\ iopc' = "parse_run"
    /\ UNCHANGED <<store, op, todo, old, target, acked, crashed>>
    /\ UNCHANGED <<syncVars, parseVars, retryVars, storeVars, mainVars>>

\* comps_posts_iter is exhausted.
ParseRunEnd ==
    /\ iopc = "parse_run"
    /\ ~crashed
    /\ iopc' = "idle"
    /\ UNCHANGED <<store, file, fbuf, op, todo, old, target, acked, crashed>>
    /\ UNCHANGED <<syncVars, parseVars, retryVars, storeVars, mainVars>>

\* The process is killed (SIGKILL, power loss): the buffer of the file
\* object is lost with the process.
CrashKill ==
    /\ iopc # "idle"
    /\ ~crashed
    /\ crashed' = TRUE
    /\ fbuf' = <<>>
    /\ UNCHANGED <<store, file, iopc, op, todo, old, target, acked>>
    /\ UNCHANGED <<syncVars, parseVars, retryVars, storeVars, mainVars>>

\* The process ends by an exception or KeyboardInterrupt: the with block
\* unwinds and closes the file, which flushes the buffer.
CrashUnwind ==
    /\ iopc # "idle"
    /\ ~crashed
    /\ crashed' = TRUE
    /\ file' = file \o fbuf
    /\ fbuf' = <<>>
    /\ UNCHANGED <<store, iopc, op, todo, old, target, acked>>
    /\ UNCHANGED <<syncVars, parseVars, retryVars, storeVars, mainVars>>

\* -------------------------------------------------- retry_with_exp_backoff
\* What the wrapped function may return and raise.
RetValues == {"page", "detail"}

RetErrors == {"timeout", "refused"}

\* random.uniform(2**i, 2 ** (i + 1)): the two ends of the interval.
sleep_for(k) == {2 ^ k, 2 ^ (k + 1)}

\* wrapper(*args, **kwargs) is called: i = 1
RetryCall ==
    /\ rpc = "idle"
    /\ \E n \in 0..MaxRetries : retries' = n
    /\ r_i' = 1
    /\ rpc' = "while"
    /\ calls' = 0
    /\ sleeps' = <<>>
    /\ excs' = <<>>
    /\ result' = "unset"
    /\ raised' = "unset"
    /\ UNCHANGED <<syncVars, parseVars, ioVars, storeVars, mainVars>>

\* while i <= retries is false: the wrapper falls off its end
RetryFallOff ==
    /\ rpc = "while"
    /\ ~(r_i <= retries)
    /\ rpc' = "returned"
    /\ result' = "None"
    /\ UNCHANGED <<retries, r_i, calls, sleeps, excs, raised>>
    /\ UNCHANGED <<syncVars, parseVars, ioVars, storeVars, mainVars>>

\* return function(*args, **kwargs)
AttemptReturns ==
    /\ rpc = "while"
    /\ r_i <= retries
    /\ calls' = calls + 1
    /\ \E v \in RetValues : result' = v
    /\ rpc' = "returned"
    /\ UNCHANGED <<retries, r_i, sleeps, excs, raised>>
    /\ UNCHANGED <<syncVars, parseVars, ioVars, storeVars, mainVars>>

\* function(*args, **kwargs) raises: except Exception as e
AttemptRaises ==
    /\ rpc = "while"
    /\ r_i <= retries
    /\ calls' = calls + 1
    /\ \E e \in RetErrors : excs' = Append(excs, e)
    /\ rpc' = "except"
    /\ UNCHANGED <<retries, r_i, sleeps, result, raised>>
    /\ UNCHANGED <<syncVars, parseVars, ioVars, storeVars, mainVars>>

\* A handler that gives up without raising once the budget is spent.
Backoff_Swallows ==
    /\ rpc = "except"
    /\ \E d \in sleep_for(r_i) : sleeps' = Append(sleeps, d)
    /\ r_i' = r_i + 1
    /\ IF r_i' > retries
         THEN rpc' = "returned" /\ result' = "None"
         ELSE rpc' = "while" /\ result' = result
    /\ UNCHANGED <<retries, calls, excs, raised>>
    /\ UNCHANGED <<syncVars, parseVars, ioVars, storeVars, mainVars>>

\* time.sleep(sleep_for); i += 1; if i > retries: raise
Backoff ==
    /\ rpc = "except"
    /\ \E d \in sleep_for(r_i) : sleeps' = Append(sleeps, d)
    /\ r_i' = r_i + 1
    /\ IF r_i' > retries
         THEN rpc' = "raised" /\ raised' = excs[Len(excs)]
         ELSE rpc' = "while" /\ raised' = raised
    /\ UNCHANGED <<retries, calls, excs, result>>
    /\ UNCHANGED <<syncVars, parseVars, ioVars, storeVars, mainVars>>

\* The caller has the answer; the wrapper may be called again.
RetryDone ==
    /\ rpc \in {"returned", "raised"}
    /\ rpc' = "idle"
    /\ UNCHANGED <<retries, r_i, calls, sleeps, excs, result, raised>>
    /\ UNCHANGED <<syncVars, parseVars, ioVars, storeVars, mainVars>>

SyncInit ==
    /\ remote = <<>>
    /\ now = 0
    /\ raw = <<>>
    /\ pc = "idle"
    /\ existing_ids = {}
    /\ till_date = None
    /\ skip = 0
    /\ new_posts_count = 0
    /\ skipped_due_to_lag = 0
    /\ posts_list = <<>>
    /\ idx = 1
    /\ runs = 0
    /\ ev = "init"
    /\ stopped = FALSE
    /\ lagged = {}
    /\ seen = {}
    /\ run_now = 0
    /\ max_posts_run = max_posts
    /\ detail_of = None
    /\ quiet = FALSE
    /\ quiet_prev = FALSE

ParseInit ==
    /\ parsed = <<>>
    /\ entry = "main"
    /\ ppc = "idle"
    /\ parsed_ids = {}
    /\ p_till_date = None
    /\ pi = 1
    /\ n_parsed = 0
    /\ n_skips = 0
    /\ pruns = 0
    /\ pev = "init"
    /\ resp = [kind |-> "none", offers |-> <<>>]
    /\ start_ids = {}
    /\ failed_prev = {}
    /\ failed_cur = {}
    /\ submitted = {}

RetryInit ==
    /\ retries = 0
    /\ r_i = 1
    /\ rpc = "idle"
    /\ calls = 0
    /\ sleeps = <<>>
    /\ excs = <<>>
    /\ result = "unset"
    /\ raised = "unset"

IOInit ==
    /\ file = <<>>
    /\ fbuf = <<>>
    /\ iopc = "idle"
    /\ op = "none"
    /\ todo = <<>>
    /\ old = <<>>
    /\ target = <<>>
    /\ acked = <<>>
    /\ crashed = FALSE

\* The sync driver against a forum that publishes and a clock that advances.
\* Nothing has been removed from the raw store.
MainInit == truncated = {}

\* No store operation has been called on the file.
StoreInit ==
    /\ jsonl_exists = FALSE
    /\ jsonl = <<>>
    /\ jsonl_before = <<>>
    /\ call = "none"
    /\ post_ids = {}
    /\ returned_ids = {}
    /\ returned_date = None
    /\ returned_count = 0
    /\ exc = "none"

Init ==
    /\ SyncInit /\ ParseInit /\ IOInit /\ store = "raw" /\ RetryInit
    /\ StoreInit /\ MainInit

Next ==
    \/ Publish
    \/ Tick
    \/ StartSync
    \/ WhileExit
    \/ FetchList
    \/ FetchListError
    \/ SkipExisting
    \/ DetailError
    \/ Crossed
    \/ LagSkip
    \/ AppendPost
    \/ Reject
    \/ ForEnd
    \/ AfterFor
    \/ SortRaw

Spec == Init /\ [][Next]_vars

\* ------------------------------------------------------- main.py pipeline
\* A truncation that keeps the oldest records of the raw store.
truncate_raw_posts_keep_count_Oldest(lines, keep) ==
    LET records == SortDesc(SelectSeq(lines, HasDate))
    IN  IF Len(records) > keep
        THEN SubSeq(records, Len(records) - keep + 1, Len(records))
        ELSE lines

\* utils/helpers.py truncate_raw_posts(file_path, keep_count): the content of
\* the file afterwards, for the keep_count the caller passes.
truncate_raw_posts_keep_count(lines, keep) ==
    LET records == SortDesc(SelectSeq(lines, HasDate))
    IN  IF Len(records) > keep THEN SubSeq(records, 1, keep) ELSE lines

\* main.py:23 truncate_raw_posts(str(raw_file), keep_count=...) after the
\* sync run, in the case where it rewrites the file.
MainTruncateRawPosts ==
    /\ pc = "idle"
    /\ runs >= 1
    /\ \E keep \in 1..keep_count :
         /\ Len(raw) > keep
         /\ raw' = truncate_raw_posts_keep_count(raw, keep)
         /\ truncated' = truncated \cup (SeqIds(raw) \ SeqIds(raw'))
    /\ ev' = "truncate"
    /\ detail_of' = None
    /\ UNCHANGED <<remote, now, pc, existing_ids, till_date, skip,
                   new_posts_count, skipped_due_to_lag, posts_list, idx, runs,
                   stopped, lagged, seen, run_now, max_posts_run, quiet,
                   quiet_prev>>
    /\ UNCHANGED <<parseVars, ioVars, retryVars, storeVars>>

NextMain ==
    \/ Publish
    \/ Tick
    \/ StartSync
    \/ WhileExit
    \/ FetchList
    \/ FetchListError
    \/ SkipExisting
    \/ DetailError
    \/ Crossed
    \/ LagSkip
    \/ AppendPost
    \/ Reject
    \/ ForEnd
    \/ AfterFor
    \/ SortRaw
    \/ MainTruncateRawPosts

SpecMain == Init /\ [][NextMain]_vars

\* The extraction driver over a raw store that a sync run left behind.
InitParse ==
    /\ raw \in RawStores
    /\ remote = <<>>
    /\ now = 0
    /\ pc = "idle"
    /\ existing_ids = {}
    /\ till_date = None
    /\ skip = 0
    /\ new_posts_count = 0
    /\ skipped_due_to_lag = 0
    /\ posts_list = <<>>
    /\ idx = 1
    /\ runs = 0
    /\ ev = "init"
    /\ stopped = FALSE
    /\ lagged = {}
    /\ seen = {}
    /\ run_now = 0
    /\ max_posts_run = max_posts
    /\ detail_of = None
    /\ quiet = FALSE
    /\ quiet_prev = FALSE
    /\ ParseInit
    /\ IOInit
    /\ store = "parsed"
    /\ RetryInit
    /\ StoreInit
    /\ MainInit

NextParse ==
    \/ StartMain
    \/ StartScript
    \/ PSkip
    \/ PCrossed
    \/ PWrite
    \/ PFail
    \/ PIterEnd
    \/ FinishMain
    \/ FinishScript

SpecParse == InitParse /\ [][NextParse]_vars

\* The store helpers and the append loops on one store file, with a process
\* that may be terminated at any step.
InitIO ==
    /\ SyncInit /\ ParseInit /\ IOInit /\ store \in {"raw", "parsed"}
    /\ RetryInit /\ StoreInit /\ MainInit

NextIO ==
    \/ SortAndTruncateOpen
    \/ TruncateRawPostsOpen
    \/ TruncateRawPostsKeep
    \/ UtilsSortAndTruncateOpen
    \/ WriteRecord
    \/ AutoFlush
    \/ CloseRewrite
    \/ OpenAppendSync
    \/ SyncWrite
    \/ SyncFlush
    \/ CloseSync
    \/ ParseRunStart
    \/ OpenAppendParse
    \/ ParseWrite
    \/ ParseClose
    \/ ParseRunEnd
    \/ CrashKill
    \/ CrashUnwind

SpecIO == InitIO /\ [][NextIO]_vars

\* ------------------------------------------------------------------ claims

\* C1: once an unseen item at or below the watermark is met, the sync run
\* stops entirely: no further edge is processed and no further list page is
\* fetched in that run.
C1_StopsEntireSync ==
    [][stopped =>
         ev' \notin {"list", "existing", "detail_error", "crossed", "lag",
                     "append", "reject"}]_vars

\* C2: after every sync run that completes, no two records of the raw store
\* share an id (distinct ids = number of lines).
C2_NoDuplicateIds ==
    (pc = "idle" /\ ev = "sorted") => Cardinality(SeqIds(raw)) = Len(raw)

\* C8: an item whose creation date is newer than now minus the lag window
\* is not appended; the step that meets it leaves the raw store and the
\* fetched counter alone and moves on to the next edge of the same page.
C8_LagItemSkipped ==
    [][(InFor /\ post.creation_date > now - LAG_DAYS) =>
         /\ raw' = raw
         /\ new_posts_count' = new_posts_count
         /\ pc' = "for" /\ idx' = idx + 1
         /\ posts_list' = posts_list /\ skip' = skip]_vars

C8_Witness == ev = "lag" /\ skipped_due_to_lag > 0 /\ InFor

\* C9: an admissible item skipped for the lag window is in the raw store,
\* or still above its watermark (so a following run can append it), at the
\* end of every completed later run that was made after now passed its
\* creation date plus the lag and whose list pages returned it.
C9_LagSkippedLaterAppended ==
    (pc = "idle" /\ ev = "sorted") =>
        \A i \in DOMAIN remote :
            LET p == parse_post_data(remote[i])
            IN  (/\ p.id \in lagged
                 /\ p.id \in seen
                 /\ should_parse_post(p)
                 /\ run_now > p.creation_date + LAG_DAYS)
                => \/ p.id \in SeqIds(raw)
                   \/ ~has_crossed_till_date(p.creation_date,
                                             latest_parsed_date(raw))

\* C10: a detail fetch that raises skips that item only: nothing is
\* appended, the counter is unchanged and the for loop goes on with the next
\* edge of the same page (and so to the following pages).
C10_DetailErrorSkipsOneItem ==
    [][ev' = "detail_error" =>
         /\ raw' = raw
         /\ new_posts_count' = new_posts_count
         /\ pc = "for" /\ pc' = "for" /\ idx' = idx + 1
         /\ posts_list' = posts_list /\ skip' = skip]_vars

C10_Witness == ev = "detail_error" /\ InFor

\* C3: an extraction run, started from either entry point, submits no raw
\* post whose id was already in the parsed store when the run started (so a
\* second run over the same raw store re-extracts nothing).
C3_SkipsAlreadyParsed ==
    [][pev' \in {"write", "fail"} => raw[pi].id \notin start_ids]_vars

\* C4: a failed extraction writes nothing, and every post whose extraction
\* failed in one run is submitted to the service again in the next run.
C4_FailedPostRetried ==
    /\ [][pev' = "fail" => parsed' = parsed]_vars
    /\ []((ppc = "idle" /\ pev = "end" /\ pruns >= 2)
            => failed_prev \subseteq submitted)

\* C5: when the service answers with offers of which at least one is valid,
\* exactly the valid ones are written and the post's id is in the parsed
\* store afterwards.
C5_ValidOffersSurvive ==
    [][(/\ pev' \in {"write", "fail"}
        /\ resp'.kind = "offers"
        /\ NValid(resp'.offers) >= 1)
       => /\ Len(parsed') = Len(parsed) + NValid(resp'.offers)
          /\ raw[pi].id \in SeqIds(parsed')]_vars

\* One call after another through a retry wrapper, with every budget.
InitRetry == Init

NextRetry ==
    \/ RetryCall
    \/ RetryFallOff
    \/ AttemptReturns
    \/ AttemptRaises
    \/ Backoff
    \/ RetryDone

SpecRetry == InitRetry /\ [][NextRetry]_vars

\* ------------------------------------------------- store file operations
\* Each operation that reads or rewrites a store file as a whole, called on
\* a file that may be missing and may hold lines that are not records.
MaxLines == 4

Rec1 == [id |-> 1, creation_date |-> 1]

Rec2 == [id |-> 2, creation_date |-> 3]

Rec3 == [id |-> 3, creation_date |-> 2]

Lines == {Rec1, Rec2, Rec3, NoDate, NoId, Junk, Blank}

Files == UNION {[1..n -> Lines] : n \in 0..MaxLines}

\* One call: the state of the file afterwards, what the call returned and
\* the exception it raised.
StoreCall(name, exists_after, lines_after, ids, date, count, e) ==
    /\ call' = name
    /\ jsonl_before' = jsonl
    /\ jsonl_exists' = exists_after
    /\ jsonl' = lines_after
    /\ returned_ids' = ids
    /\ returned_date' = date
    /\ returned_count' = count
    /\ exc' = e
    /\ UNCHANGED <<syncVars, parseVars, ioVars, retryVars, mainVars>>

\* clean.py remove_posts_from_jsonl, the lines written to the temp file: a
\* blank line is passed over, a line that is not JSON is copied, a record is
\* copied unless record.get("id") is in post_ids.
remove_posts_from_jsonl_Unfiltered(lines, ids) ==
    SelectSeq(lines, LAMBDA l : ~IsBlank(l))

remove_posts_from_jsonl(lines, ids) ==
    SelectSeq(lines, LAMBDA l :
        /\ ~IsBlank(l)
        /\ (~Parses(l) \/ ~(HasId(l) /\ l.id \in ids)))

\* clean.py remove_posts_from_jsonl: removed_count
removed_count(lines, ids) ==
    Cardinality({k \in DOMAIN lines : HasId(lines[k]) /\ lines[k].id \in ids})

\* parse.py comps_posts_iter on an existing file: json.loads(line) for every
\* line, blank lines included, outside any try block.
comps_posts_iter_exc(lines) ==
    IF FirstBad({j \in DOMAIN lines : ~Parses(lines[j])}) = 0 THEN "none"
    ELSE "JSONDecodeError"

\* parse.py comps_posts_iter: the number of posts yielded before it ends.
comps_posts_iter_count(lines) ==
    LET k == FirstBad({j \in DOMAIN lines : ~Parses(lines[j])})
    IN  IF k = 0 THEN Len(lines) ELSE k - 1

\* refresh.py:103 get_existing_ids(output_file)
CallGetExistingIds ==
    /\ post_ids' = {}
    /\ IF ~jsonl_exists
       THEN StoreCall("get_existing_ids", FALSE, jsonl, {}, None, 0, "none")
       ELSE IF get_existing_ids_exc(jsonl) # "none"
       THEN StoreCall("get_existing_ids", TRUE, jsonl, {}, None, 0,
                      get_existing_ids_exc(jsonl))
       ELSE StoreCall("get_existing_ids", TRUE, jsonl,
                      get_existing_ids(jsonl), None, 0, "none")

\* utils/data_processing.py get_existing_ids(filepath)
CallDataProcessingGetExistingIds ==
    /\ post_ids' = {}
    /\ IF ~jsonl_exists
       THEN StoreCall("data_processing_get_existing_ids", FALSE, jsonl, {},
                      None, 0, "none")
       ELSE IF data_processing_get_existing_ids_exc(jsonl) # "none"
       THEN StoreCall("data_processing_get_existing_ids", TRUE, jsonl, {},
                      None, 0, data_processing_get_existing_ids_exc(jsonl))
       ELSE StoreCall("data_processing_get_existing_ids", TRUE, jsonl,
                      get_existing_ids(jsonl), None, 0, "none")

\* parse.py:378 get_parsed_ids(args.out_comps_path)
CallGetParsedIds ==
    /\ post_ids' = {}
    /\ IF ~jsonl_exists
       THEN StoreCall("get_parsed_ids", FALSE, jsonl, {}, None, 0, "none")
       ELSE IF get_parsed_ids_exc(jsonl) # "none"
       THEN StoreCall("get_parsed_ids", TRUE, jsonl, {}, None, 0,
                      get_parsed_ids_exc(jsonl))
       ELSE StoreCall("get_parsed_ids", TRUE, jsonl, get_parsed_ids(jsonl),
                      None, 0, "none")

\* refresh.py:104 latest_parsed_date(output_file)
CallLatestParsedDate ==
    /\ post_ids' = {}
    /\ StoreCall("latest_parsed_date", jsonl_exists, jsonl, {},
                 IF jsonl_exists THEN latest_parsed_date(jsonl) ELSE None,
                 0, "none")

\* parse.py:379 latest_parsed_date(args.out_comps_path)
CallUtilsLatestParsedDate ==
    /\ post_ids' = {}
    /\ StoreCall("utils_latest_parsed_date", jsonl_exists, jsonl, {},
                 IF jsonl_exists THEN utils_latest_parsed_date(jsonl) ELSE None,
                 0, "none")

\* refresh.py:157 sort_and_truncate(output_file)
CallSortAndTruncate ==
    /\ post_ids' = {}
    /\ StoreCall("sort_and_truncate", jsonl_exists,
                 IF jsonl_exists THEN sort_and_truncate(jsonl) ELSE jsonl,
                 {}, None, 0, "none")

\* parse.py:381 sort_and_truncate(args.out_comps_path, truncate=True), and
\* the same call with the default truncate=False
CallUtilsSortAndTruncate ==
    /\ post_ids' = {}
    /\ \E truncate \in BOOLEAN :
         StoreCall(IF truncate THEN "utils_sort_and_truncate" ELSE "utils_sort",
                   jsonl_exists,
                   IF jsonl_exists THEN sort_and_truncate_flag(jsonl, truncate)
                   ELSE jsonl,
                   {}, None, 0, "none")

\* main.py:23 truncate_raw_posts(str(raw_file), keep_count=...)
CallTruncateRawPosts ==
    /\ post_ids' = {}
    /\ StoreCall("truncate_raw_posts", jsonl_exists,
                 IF jsonl_exists THEN truncate_raw_posts(jsonl) ELSE jsonl,
                 {}, None, 0, "none")

\* clean.py:85 remove_posts_from_jsonl(str(jsonl_file), post_ids)
CallRemovePosts ==
    \E ids \in (SUBSET {1, 2, 4}) \ {{}} :
        /\ post_ids' = ids
        /\ IF ~jsonl_exists
           THEN StoreCall("remove_posts_from_jsonl", FALSE, jsonl, {}, None, 0,
                          "none")
           ELSE StoreCall("remove_posts_from_jsonl", TRUE,
                          remove_posts_from_jsonl(jsonl, ids), {}, None,
                          removed_count(jsonl, ids), "none")

\* parse.py:202 for i, post in enumerate(comps_posts_iter(in_comps_path))
CallCompsPostsIter ==
    /\ post_ids' = {}
    /\ IF ~jsonl_exists
       THEN StoreCall("comps_posts_iter", FALSE, jsonl, {}, None, 0,
                      "FileNotFoundError")
       ELSE StoreCall("comps_posts_iter", TRUE, jsonl, {}, None,
                      comps_posts_iter_count(jsonl), comps_posts_iter_exc(jsonl))

\* refresh.py:111 with open(output_file, "a") as f: a missing file is created
CallOpenAppend ==
    /\ post_ids' = {}
    /\ StoreCall("open_append", TRUE, jsonl, {}, None, 0, "none")

InitStore ==
    /\ SyncInit /\ ParseInit /\ IOInit /\ store = "raw" /\ RetryInit
    /\ MainInit
    /\ jsonl_exists \in BOOLEAN
    /\ jsonl \in Files
    /\ (~jsonl_exists => jsonl = <<>>)
    /\ jsonl_before = <<>>
    /\ call = "none"
    /\ post_ids = {}
    /\ returned_ids = {}
    /\ returned_date = None
    /\ returned_count = 0
    /\ exc = "none"

NextStore ==
    \/ CallGetExistingIds
    \/ CallDataProcessingGetExistingIds
    \/ CallGetParsedIds
    \/ CallLatestParsedDate
    \/ CallUtilsLatestParsedDate
    \/ CallSortAndTruncate
    \/ CallUtilsSortAndTruncate
    \/ CallTruncateRawPosts
    \/ CallRemovePosts
    \/ CallCompsPostsIter
    \/ CallOpenAppend

SpecStore == InitStore /\ [][NextStore]_vars

\* -------------------------------------------------------------- retry claim
\* C12: a call through the retry wrapper with budget n >= 1 invokes the
\* wrapped function at most n times, returns the result of the first
\* successful attempt with no further invocation, sleeps once after each
\* failed attempt, and after n failures in a row raises the last exception
\* instead of returning.
C12_RetryBudget ==
    /\ [](retries >= 1 =>
            /\ calls <= retries
            /\ rpc = "returned" =>
                 /\ result \in RetValues
                 /\ Len(excs) = calls - 1
                 /\ Len(sleeps) = Len(excs)
            /\ rpc = "raised" =>
                 /\ calls = retries
                 /\ Len(excs) = retries
                 /\ Len(sleeps) = retries
                 /\ raised = excs[retries]
            /\ rpc = "while" => Len(sleeps) = calls /\ Len(excs) = calls)
    /\ [][(rpc = "returned" \/ rpc = "raised") => calls' = calls]_vars
    /\ [][(retries >= 1 /\ rpc = "except") =>
            (rpc' = "raised" <=> calls = retries)]_vars

C12_Witness ==
    /\ rpc = "raised"
    /\ retries = MaxRetries
    /\ calls = MaxRetries

\* ------------------------------------------------- sync claims, continued
\* C11: no remote failure terminates a sync run: whenever a run ends, also
\* after a list-page fetch that failed for good, it ends with the final sort
\* pass on the raw store.
C11_RunEndsWithSort ==
    [][(pc # "idle" /\ pc' = "idle") =>
         (ev' = "sorted" /\ raw' = sort_and_truncate(raw))]_vars

\* C13: at an edge whose id is in the existing-id set read at the start of
\* the run, the detail fetch is not invoked and nothing is appended.
C13_ExistingNotFetched ==
    [][(InFor /\ topic_id \in existing_ids) =>
         (detail_of' = None /\ raw' = raw)]_vars

C13_Witness == ev = "existing" /\ pc = "for" /\ existing_ids # {} /\ raw # <<>>

\* C14: no detail fetch is made for an item whose date is at or below the
\* watermark or inside the lag window.
C14_NoFetchBehindWatermarkOrInLag ==
    [][(/\ InFor
        /\ topic_id \notin existing_ids
        /\ \/ (till_date # None /\ post.creation_date <= till_date)
           \/ post.creation_date > now - LAG_DAYS)
       => detail_of' = None]_vars

\* C15: a sync run appends at most max_posts records, and once the fetched
\* counter has reached max_posts no detail and no list page is fetched in
\* that run (with max_posts = 0 nothing is fetched at all).
C15_QuotaBoundsRun ==
    /\ [](new_posts_count <= max_posts_run)
    /\ [][Len(raw') > Len(raw) =>
            /\ Len(raw') = Len(raw) + 1
            /\ new_posts_count < max_posts_run
            /\ new_posts_count' = new_posts_count + 1]_vars
    /\ [][(pc # "idle" /\ new_posts_count >= max_posts_run) =>
            (detail_of' = None /\ ev' \notin {"list", "list_error"})]_vars

C15_Witness ==
    /\ ev = "quota"
    /\ max_posts_run > 0
    /\ new_posts_count = max_posts_run
    /\ Len(remote) > skip

\* C16: for every outcome of the remote calls a sync run stops on an empty
\* page, on a page with fewer than first edges, or when the fetched counter
\* reaches max_posts, and skip grows by first after each page.
C16_StopsOnOneOfThree ==
    /\ [][(pc \notin {"idle", "sort"} /\ pc' \in {"idle", "sort"}) =>
            \/ ev' = "list" /\ posts_list' = <<>>
            \/ ev' = "page_end" /\ Len(posts_list) < first
            \/ ev' = "quota" /\ new_posts_count >= max_posts_run]_vars
    /\ [][ev' = "page_end" => skip' = skip + first]_vars

\* C17: a sync run appends a post only if its title contains '|' and its net
\* vote count is not negative; a step at a post that fails either test
\* stores nothing and leaves the fetched counter alone.
C17_OnlyAdmissibleAppended ==
    /\ [][Len(raw') > Len(raw) =>
            LET p == raw'[Len(raw')]
            IN  HasSep(p.title) /\ p.vote_count >= 0]_vars
    /\ [][(InFor /\ (~HasSep(post.title) \/ post.vote_count < 0)) =>
            (raw' = raw /\ new_posts_count' = new_posts_count)]_vars

C17_Witness == ev = "reject" /\ raw # <<>> /\ new_posts_count > 0

\* C18: a second sync run made with the same remote data, the same clock and
\* the same max_posts as the run before changes nothing in the raw store.
C18_ResyncChangesNothing ==
    [][(pc # "idle" /\ runs >= 2 /\ quiet /\ quiet_prev) => raw' = raw]_vars

C18_Witness ==
    /\ pc = "idle" /\ ev = "sorted" /\ runs >= 2
    /\ quiet /\ quiet_prev
    /\ stopped
    /\ Len(raw) >= 2

\* ------------------------------------------------ file-level claims
\* C6: a crash at any point during sort_and_truncate or truncate_raw_posts
\* leaves the store file holding either its complete old content or its
\* complete new content, never a partial or empty file.
C6_CrashLeavesOldOrNew ==
    (crashed /\ op \in IOOps) => (file = old \/ file = target)

\* C7: if the process terminates between two record writes of a sync run or
\* an extraction run, every record whose append returned earlier in that
\* run is in the store file afterwards.
C7_AppendedSurviveCrash ==
    (/\ crashed
     /\ \/ op = "refresh_posts" /\ iopc = "sync"
        \/ op = "parse_posts" /\ iopc = "parse" /\ todo # <<>>)
    => IsPrefix(old \o acked, file)

\* C19: after sort_and_truncate on a store with at least one valid record
\* the records are in non-increasing creation_date order: the first record's
\* date is >= every other record's date and latest_parsed_date returns the
\* maximum creation_date in the store.
C19_SortedNewestFirst ==
    (/\ iopc = "idle"
     /\ ~crashed
     /\ op \in {"sort_and_truncate", "utils_sort_and_truncate", "utils_sort"})
    => /\ file # <<>>
       /\ \A k \in 1..(Len(file) - 1) :
            file[k].creation_date >= file[k + 1].creation_date
       /\ \A k \in DOMAIN file :
            /\ file[1].creation_date >= file[k].creation_date
            /\ latest_parsed_date(file) >= file[k].creation_date
       /\ \E k \in DOMAIN file : latest_parsed_date(file) = file[k].creation_date

C19_Witness ==
    /\ iopc = "idle"
    /\ ~crashed
    /\ op = "sort_and_truncate"
    /\ Len(old) >= 2
    /\ old[1].creation_date < old[Len(old)].creation_date

CountDate(s, d) == Cardinality({k \in DOMAIN s : s[k].creation_date = d})

CountRec(s, r) == Cardinality({k \in DOMAIN s : s[k] = r})

\* C20: given max_recs = N and a store with more than N valid records, after
\* sort_and_truncate with truncation exactly N records survive and they are
\* the N newest by creation_date.
C20_TruncationKeepsNewest ==
    (/\ iopc = "idle"
     /\ ~crashed
     /\ op \in {"sort_and_truncate", "utils_sort_and_truncate"}
     /\ Len(old) > max_recs)
    => /\ Len(file) = max_recs
       /\ \A k \in DOMAIN file : CountRec(file, file[k]) <= CountRec(old, file[k])
       /\ \A k \in DOMAIN old, j \in DOMAIN file :
            old[k].creation_date > file[j].creation_date
            => CountDate(file, old[k].creation_date)
                 = CountDate(old, old[k].creation_date)

C20_Witness ==
    /\ iopc = "idle"
    /\ ~crashed
    /\ op \in {"sort_and_truncate", "utils_sort_and_truncate"}
    /\ Len(old) > max_recs
    /\ \E k \in DOMAIN old : old[k].creation_date < old[Len(old)].creation_date


\* C21: the sort pass that ends a sync run puts no cap on the raw store:
\* every record that was in the store before the pass is still in it after
\* the pass, however many records the store holds.
C21_SortPassKeepsEveryRecord ==
    (op = "sort_and_truncate" /\ iopc = "idle" /\ ~crashed)
        => /\ Len(file) = Len(old)
           /\ \A k \in DOMAIN old : CountRec(file, old[k]) = CountRec(old, old[k])


\* The post at position k of the raw store is one the loop passes over.
SkipAt(k) == raw[k].id \in parsed_ids \/ ~post_should_be_parsed(raw[k])

\* The post at position k is not skipped and is at or behind the watermark.
CrossesAt(k) ==
    ~SkipAt(k) /\ has_crossed_till_date(raw[k].creation_date, p_till_date)

\* C23: an extraction run stops entirely at the first raw post that is not
\* yet parsed, is admissible and has a date at or behind the watermark of the
\* parsed store: the loop is left there and no later raw post is submitted
\* in that run; a post that is already parsed or inadmissible is passed over
\* before the watermark test and does not stop the run.
C23_StopsAtFirstCrossedPost ==
    /\ [](ppc = "iter" => \A k \in 1..(pi - 1) : ~CrossesAt(k))
    /\ [][(ppc = "iter" /\ pi <= Len(raw) /\ CrossesAt(pi))
            => (ppc' = "after" /\ submitted' = submitted /\ parsed' = parsed)]_vars
    /\ [][(ppc = "iter" /\ pi <= Len(raw) /\ SkipAt(pi))
            => (ppc' = "iter" /\ pi' = pi + 1 /\ submitted' = submitted)]_vars

\* A run was stopped by the watermark after it had passed over a post, with
\* a raw post still after the one that stopped it.
C23_Witness ==
    /\ ppc = "after"
    /\ pev = "crossed"
    /\ pi < Len(raw)
    /\ n_skips > 0

\* C24: a failure of the extraction service for one post, an exception or an
\* empty result, is not fatal: nothing is written to the parsed store for
\* that post and the loop goes on with the next raw post.
C24_ExtractionFailureNotFatal ==
    [][pev' = "fail"
        => (/\ parsed' = parsed
            /\ ppc = "iter" /\ ppc' = "iter"
            /\ pi' = pi + 1
            /\ resp'.kind \in {"error", "none", "offers"}
            /\ raw[pi].id \in submitted')]_vars

\* The service raised for one post and a later post of the same run was
\* extracted and written.
C24_Witness ==
    /\ pev = "write"
    /\ failed_cur # {}
    /\ \E k \in 1..(pi - 2) : raw[k].id \in failed_cur

\* C25: after an extraction phase has completed, under main as well as under
\* the parse script, the parsed store is in descending date order and holds
\* at most max_recs records.
C25_ParsedStoreSortedAndCapped ==
    (ppc = "idle" /\ pev = "end")
        => (IsSortedDesc(parsed) /\ Len(parsed) <= max_recs)


\* The records with creation_date among the lines of a file, in file order.
ValidRecords(lines) == SelectSeq(lines, HasDate)

\* Every line is a record with creation_date and the dates do not increase.
IsCleanSortedDesc(lines) ==
    /\ \A k \in DOMAIN lines : HasDate(lines[k])
    /\ \A k \in 1..(Len(lines) - 1) :
         lines[k].creation_date >= lines[k + 1].creation_date

\* The lines of after are n of the newest valid records of before.
IsNewestOf(after, before, n) ==
    /\ Len(after) = n
    /\ IsCleanSortedDesc(after)
    /\ \A k \in DOMAIN after :
         CountRec(after, after[k]) <= CountRec(before, after[k])
    /\ \A k \in DOMAIN before :
         (HasDate(before[k])
          /\ CountRec(after, before[k]) < CountRec(before, before[k]))
            => \A j \in DOMAIN after :
                 after[j].creation_date >= before[k].creation_date

\* C22 (as stated): truncate_raw_posts always leaves the store as the newest
\* keep_count valid records in descending date order, also when the store
\* holds keep_count or fewer valid records.
C22_AlwaysSortsAndDropsInvalid ==
    (call = "truncate_raw_posts" /\ jsonl_exists)
        => IsNewestOf(jsonl, jsonl_before,
                      Min(Len(ValidRecords(jsonl_before)), keep_count))

\* C22 (amended): when the store holds more than keep_count valid records,
\* truncate_raw_posts leaves exactly the newest keep_count of them in
\* descending date order and no invalid line; when it holds keep_count or
\* fewer valid records the file is left exactly as it was.
C22_TruncatesOnlyAboveKeepCount ==
    (call = "truncate_raw_posts" /\ jsonl_exists)
        => IF Len(ValidRecords(jsonl_before)) > keep_count
           THEN IsNewestOf(jsonl, jsonl_before, keep_count)
           ELSE jsonl = jsonl_before

\* truncate_raw_posts was called on a file of at most keep_count valid
\* records that were out of date order and mixed with an invalid line.
C22_Witness ==
    /\ call = "truncate_raw_posts"
    /\ jsonl_exists
    /\ Len(ValidRecords(jsonl_before)) = keep_count
    /\ ~IsCleanSortedDesc(ValidRecords(jsonl_before))
    /\ \E k \in DOMAIN jsonl_before : ~Parses(jsonl_before[k])
    /\ jsonl = jsonl_before


\* C26: sort_and_truncate on a file that mixes valid records with malformed
\* lines (lines that are not JSON, or JSON without creation_date) does not
\* raise: it drops exactly the malformed lines and keeps the valid records,
\* all of them up to the cap of the operation, newest first.
C26_SortDropsExactlyMalformed ==
    (/\ call \in {"sort_and_truncate", "utils_sort_and_truncate", "utils_sort"}
     /\ jsonl_exists
     /\ ValidRecords(jsonl_before) # <<>>
     /\ \E k \in DOMAIN jsonl_before : ~HasDate(jsonl_before[k]))
        => /\ exc = "none"
           /\ IsNewestOf(jsonl, jsonl_before,
                  IF call = "utils_sort"
                  THEN Len(ValidRecords(jsonl_before))
                  ELSE Min(Len(ValidRecords(jsonl_before)), max_recs))

\* sort_and_truncate was called on a file that held a line that is not
\* JSON, a record without creation_date and two records out of date order.
C26_Witness ==
    /\ call = "sort_and_truncate"
    /\ \E k \in DOMAIN jsonl_before : ~Parses(jsonl_before[k])
    /\ \E k \in DOMAIN jsonl_before : jsonl_before[k] = NoDate
    /\ Len(ValidRecords(jsonl_before)) = 2
    /\ ~IsCleanSortedDesc(ValidRecords(jsonl_before))
    /\ Len(jsonl) = 2

\* C27: the id lookups (get_existing_ids of refresh.py and of
\* utils/data_processing.py, get_parsed_ids of parse.py) never fail on a
\* malformed line: they return exactly the ids of the well-formed lines.
C27_IdLookupSkipsMalformedLines ==
    (/\ call \in {"get_existing_ids", "data_processing_get_existing_ids",
                  "get_parsed_ids"}
     /\ jsonl_exists)
        => /\ exc = "none"
           /\ returned_ids = SeqIds(SelectSeq(jsonl_before, HasId))

\* C28: latest_parsed_date returns the creation_date of the first line, in
\* file order, that parses and has the field, whether or not it is the
\* newest date of the file; it returns None for a missing file, an empty
\* file and a file without a valid record; the file is left as it was.
C28_FirstValidLineInFileOrder ==
    (call \in {"latest_parsed_date", "utils_latest_parsed_date"})
        => /\ exc = "none"
           /\ jsonl = jsonl_before
           /\ IF ~jsonl_exists \/ ValidRecords(jsonl) = <<>>
              THEN returned_date = None
              ELSE \E k \in DOMAIN jsonl :
                     /\ HasDate(jsonl[k])
                     /\ \A j \in 1..(k - 1) : ~HasDate(jsonl[j])
                     /\ returned_date = jsonl[k].creation_date

\* latest_parsed_date was called on a file whose first line is not JSON and
\* whose first valid record is older than a later one.
C28_Witness ==
    /\ call = "latest_parsed_date"
    /\ Len(jsonl) >= 3
    /\ ~Parses(jsonl[1])
    /\ returned_date # None
    /\ \E k \in DOMAIN jsonl :
         HasDate(jsonl[k]) /\ jsonl[k].creation_date > returned_date

\* C29: remove_posts_from_jsonl removes exactly the records whose id is in
\* post_ids and returns their number; every other record and every line
\* that is not JSON stays, unchanged and in its original relative order
\* (blank lines are not copied).
C29_RemovesExactlyListedIds ==
    (call = "remove_posts_from_jsonl" /\ jsonl_exists)
        => /\ exc = "none"
           /\ \A k \in DOMAIN jsonl : ~(HasId(jsonl[k]) /\ jsonl[k].id \in post_ids)
           /\ jsonl = SelectSeq(jsonl_before, LAMBDA l :
                         ~IsBlank(l) /\ (HasId(l) => l.id \notin post_ids))
           /\ returned_count = Len(SelectSeq(jsonl_before, LAMBDA l :
                                     HasId(l) /\ l.id \in post_ids))
           /\ Len(jsonl) + returned_count
                = Len(SelectSeq(jsonl_before, LAMBDA l : ~IsBlank(l)))

\* A record was removed from between a line that is not JSON and a record
\* that was not listed, and both stayed.
C29_Witness ==
    /\ call = "remove_posts_from_jsonl"
    /\ returned_count = 1
    /\ Len(jsonl_before) = 3
    /\ ~IsBlank(jsonl_before[1]) /\ ~Parses(jsonl_before[1])
    /\ HasId(jsonl_before[3])
    /\ jsonl = <<jsonl_before[1], jsonl_before[3]>>

\* The operations on a store file that the pipeline and the tools call.
StoreOps ==
    {"get_existing_ids", "data_processing_get_existing_ids", "get_parsed_ids",
     "latest_parsed_date", "utils_latest_parsed_date", "sort_and_truncate",
     "utils_sort_and_truncate", "utils_sort", "truncate_raw_posts",
     "remove_posts_from_jsonl", "comps_posts_iter"}

\* C30: every store operation, the iteration of the extraction driver over
\* the raw store included, treats a file that does not exist as an empty
\* store: it returns the empty result and does not fail.
C30_MissingFileIsEmptyStore ==
    (call \in StoreOps /\ ~jsonl_exists)
        => /\ exc = "none"
           /\ returned_ids = {}
           /\ returned_date = None
           /\ returned_count = 0
           /\ jsonl = <<>>


\* utils/leetcode_api.py CompensationOffer.validate_base_offer: the value the
\* validator returns, None when it raises ValueError. A value above the
\* range is tried again as v / 100000.
validate_base_offer(v) ==
    IF v > max_base_offer
          /\ min_base_offer <= v \div 100000
          /\ v \div 100000 <= max_base_offer
    THEN v \div 100000
    ELSE IF min_base_offer <= v /\ v <= max_base_offer THEN v
    ELSE None

\* utils/leetcode_api.py CompensationOffer.validate_total_offer
validate_total_offer(v) ==
    IF v > max_total_offer
          /\ min_total_offer <= v \div 100000
          /\ v \div 100000 <= max_total_offer
    THEN v \div 100000
    ELSE IF min_total_offer <= v /\ v <= max_total_offer THEN v
    ELSE None

\* C31: an offer value v above the configured range whose v / 100000 lies in
\* the range is accepted as v / 100000, a value in the range is accepted
\* unchanged, any other value rejects the offer: when the service answers
\* with one offer whose base and total values pass this rule, the offer is
\* written with the values the rule gives.
C31_UnitInference ==
    [][(/\ pev' \in {"write", "fail"}
        /\ resp'.kind = "offers"
        /\ Len(resp'.offers) = 1
        /\ validate_base_offer(resp'.offers[1].base_offer) # None
        /\ validate_total_offer(resp'.offers[1].total_offer) # None)
       => /\ pev' = "write"
          /\ Len(parsed') = Len(parsed) + 1
          /\ parsed'[Len(parsed')].base_offer
               = validate_base_offer(resp'.offers[1].base_offer)
          /\ parsed'[Len(parsed')].total_offer
               = validate_total_offer(resp'.offers[1].total_offer)]_vars


\* C32: a post that a sync run listed and did not append although it is
\* admissible, older than the lag window and ahead of the watermark the run
\* started from (its detail fetch failed, or the run stopped at max_posts
\* before it) can still be appended by a later run: when the run ends the
\* post is not behind the watermark the next run will read.
C32_MissedPostStaysAppendable ==
    [][ev' = "sorted"
        => \A i \in DOMAIN remote :
             LET p == parse_post_data(remote[i])
             IN  (/\ p.id \in seen
                  /\ should_parse_post(p)
                  /\ ~is_within_lag_period(p.creation_date, run_now)
                  /\ ~has_crossed_till_date(p.creation_date, till_date)
                  /\ p.id \notin SeqIds(raw'))
                 => ~has_crossed_till_date(p.creation_date,
                                           latest_parsed_date(raw'))]_vars


\* C34: when the raw store has a watermark at the start of a sync run, every
\* record the run appends has a creation_date strictly greater than the
\* watermark and not newer than now minus the lag; a step at an unseen post
\* whose creation_date equals the watermark appends nothing.
C34_AppendedStrictlyAboveWatermark ==
    /\ [][(Len(raw') > Len(raw) /\ till_date # None)
            => LET p == raw'[Len(raw')]
               IN  /\ p.creation_date > till_date
                   /\ p.creation_date <= now - LAG_DAYS]_vars
    /\ [][(/\ InFor
            /\ topic_id \notin existing_ids
            /\ till_date # None
            /\ post.creation_date = till_date)
            => raw' = raw]_vars

\* A run that started from a watermark has appended a post while the forum
\* lists a post that is not in the raw store and whose date is the watermark.
C34_Witness ==
    /\ ev = "append"
    /\ till_date # None
    /\ raw[Len(raw)].creation_date > till_date
    /\ \E i \in DOMAIN remote :
         /\ remote[i].id \notin SeqIds(raw)
         /\ should_parse_post(parse_post_data(remote[i]))
         /\ parse_post_data(remote[i]).creation_date = till_date


\* C33: a record that truncate_raw_posts (keep_count >= 1) removed from the
\* raw store is not appended to the raw store again by a later sync run,
\* although its id is no longer among the existing ids of that run.
C33_TruncatedNotAppendedAgain ==
    [][Len(raw') > Len(raw) => raw'[Len(raw')].id \notin truncated]_vars

\* A sync run that started after a truncation has fetched the detail of a
\* removed post, which is not among its existing ids, and stopped there.
C33_Witness ==
    /\ ev = "crossed"
    /\ detail_of \in truncated
    /\ detail_of \notin existing_ids
    /\ detail_of \notin SeqIds(raw)


\* C35: for every retry budget, 0 included, a call through the retry wrapper
\* invokes the wrapped function at least once and ends either by returning
\* a result of that function or by raising its exception; it never returns
\* without a result the function produced.
C35_WrapperAlwaysCallsOnce ==
    /\ rpc = "returned" => (calls >= 1 /\ result \in RetValues)
    /\ rpc = "raised" => (calls >= 1 /\ raised = excs[Len(excs)])


SortOps == {"sort_and_truncate", "utils_sort_and_truncate", "utils_sort"}

\* The records of a file that carry the date d, in file order.
OfDate(lines, d) ==
    SelectSeq(lines, LAMBDA l : HasDate(l) /\ l.creation_date = d)

\* C36: sort_and_truncate is idempotent and stable: a second application
\* right after the first leaves the file as the first left it, and the
\* records of one creation_date are in the file in the relative order they
\* had before the call.
C36_SortIdempotentAndStable ==
    /\ [][(call \in SortOps /\ call' = call) => jsonl' = jsonl]_vars
    /\ []((call \in SortOps /\ jsonl_exists /\ ValidRecords(jsonl_before) # <<>>)
            => \A k \in DOMAIN jsonl :
                 IsPrefix(OfDate(jsonl, jsonl[k].creation_date),
                          OfDate(jsonl_before, jsonl[k].creation_date)))

\* sort_and_truncate moved a newer record in front of two different records
\* of one date, which it left in their order.
C36_Witness ==
    /\ call = "sort_and_truncate"
    /\ jsonl_before = <<Rec3, NoId, Rec2>>
    /\ jsonl = <<Rec2, Rec3, NoId>>


\* C37: when one raw post yields more than one offer, every record written
\* for it carries the yoe of the post's first offer and the post's id,
\* vote_count, comment_count, view_count and creation_date; the records are
\* as many as the offers and keep the offers' own company and role.
C37_OffersShareYoeAndPostFields ==
    [][(pev' = "write" /\ Len(parsed') > Len(parsed) /\ Len(resp'.offers) > 1)
       => /\ Len(parsed') = Len(parsed) + Len(resp'.offers)
          /\ SubSeq(parsed', 1, Len(parsed)) = parsed
          /\ \A k \in 1..Len(resp'.offers) :
               LET w == parsed'[Len(parsed) + k]
               IN  /\ w.yoe = resp'.offers[1].yoe
                   /\ w.id = raw[pi].id
                   /\ w.vote_count = raw[pi].vote_count
                   /\ w.comment_count = raw[pi].comment_count
                   /\ w.view_count = raw[pi].view_count
                   /\ w.creation_date = raw[pi].creation_date
                   /\ w.company = resp'.offers[k].company
                   /\ w.role = resp'.offers[k].role]_vars

\* A post with two offers of different yoe was written: the second record
\* has the first offer's yoe, not its own.
C37_Witness ==
    /\ pev = "write"
    /\ resp.kind = "offers"
    /\ resp.offers = <<OfferOk1, OfferOk2>>
    /\ Len(parsed) >= 2
    /\ parsed[Len(parsed)].company = OfferOk2.company
    /\ parsed[Len(parsed)].yoe = OfferOk1.yoe
    /\ parsed[Len(parsed)].yoe # OfferOk2.yoe
    /\ parsed[Len(parsed)].id = parsed[Len(parsed) - 1].id

====
